---------------------------- MODULE Spec2Model ----------------------------
(***************************************************************************)
(* A model of freud's cubatic order parameter optimizer                    *)
(* (cpp/order/CubaticOrderParameter.cc), of the AABB tree query iterators  *)
(* declared in cpp/locality/AABBQuery.h and of the Voronoi buffer          *)
(* (cpp/voronoi/VoronoiBuffer.cc).                                         *)
(*                                                                         *)
(* Numbers.  The code computes in float.  The model computes exactly:      *)
(*   - a tensor4 is a sequence of 81 integers in units of 1/TensorUnit;    *)
(*   - a temperature, a scale and an order parameter are rationals         *)
(*     [n |-> numerator, d |-> denominator > 0] kept in lowest terms;      *)
(*   - an orientation is a rotation about the z axis by a multiple of 45   *)
(*     degrees, named by its multiple 0..7; the quaternion product is the  *)
(*     sum of the multiples modulo 8;                                      *)
(*   - a uniform draw in [0,1) is one of the quarters 0/4 .. 3/4.          *)
(***************************************************************************)
EXTENDS Integers, Sequences, FiniteSets, TLC

(***************************************************************************)
(* Rationals                                                               *)
(***************************************************************************)
Abs(x) == IF x < 0 THEN -x ELSE x

RECURSIVE GCD(_, _)
GCD(a, b) == IF b = 0 THEN a ELSE GCD(b, a % b)

\* the rational n/d (d # 0) in lowest terms with a positive denominator
Rat(n, d) ==
    LET g == GCD(Abs(n), Abs(d))
        s == IF d < 0 THEN -1 ELSE 1
    IN  [n |-> (s * n) \div g, d |-> (s * d) \div g]

RatLT(a, b) == a.n * b.d < b.n * a.d
RatLE(a, b) == a.n * b.d <= b.n * a.d
RatMul(a, b) == Rat(a.n * b.n, a.d * b.d)
RatSub(a, b) == Rat(a.n * b.d - b.n * a.d, a.d * b.d)
RatDiv(a, b) == Rat(a.n * b.d, a.d * b.n)

(***************************************************************************)
(* tensor4: 81 values, element cnt of the code is element cnt + 1 here     *)
(***************************************************************************)
TensorUnit == 3 * 4 * 5

Idx81 == 1..81

\* the four indices (i, j, k, l) the code's nested loops pair with cnt
IJKL(c) ==
    LET cnt == c - 1
    IN  <<cnt \div 27, (cnt \div 9) % 3, (cnt \div 3) % 3, cnt % 3>>

\* tensor4::tensor4() and tensor4::reset()
tensor4_zero == [c \in Idx81 |-> 0]

(* A vector component of a rotated basis vector is 0, +-1 or +-1/sqrt(2):  *)
(* [s |-> sign, h |-> number of factors 1/sqrt(2)].  A product of four     *)
(* components of one vector has an even number of such factors.            *)
CompMul(a, b) == [s |-> a.s * b.s, h |-> a.h + b.h]

CompValue(a) ==
    IF a.s = 0 THEN 0
    ELSE a.s * (CASE a.h = 0 -> TensorUnit
                  [] a.h = 2 -> TensorUnit \div 2
                  [] a.h = 4 -> TensorUnit \div 4)

\* tensor4::tensor4(vec3<float> vector): data[cnt] = v[i] * v[j] * v[k] * v[l]
tensor4_vec(v) ==
    [c \in Idx81 |->
        LET x == IJKL(c)
        IN  CompValue(CompMul(CompMul(v[x[1] + 1], v[x[2] + 1]),
                              CompMul(v[x[3] + 1], v[x[4] + 1])))]

\* tensor4::operator+=(const tensor4&)
tensor4_add(a, b) == [c \in Idx81 |-> a[c] + b[c]]

\* tensor4::operator-(const tensor4&) and operator-=
tensor4_sub(a, b) == [c \in Idx81 |-> a[c] - b[c]]

\* tensor4::operator*=(const float&), for an integer factor
tensor4_scale(a, f) == [c \in Idx81 |-> a[c] * f]

RECURSIVE DotFrom(_, _, _)
DotFrom(a, b, c) ==
    IF c > 81 THEN 0 ELSE a[c] * b[c] + DotFrom(a, b, c + 1)

\* dot(const tensor4&, const tensor4&), in units of 1/TensorUnit^2
dot(a, b) == DotFrom(a, b, 1)

Delta(i, j) == IF i = j THEN 1 ELSE 0

\* genR4Tensor(): r4[cnt] = (d_ij d_kl + d_ik d_jl + d_il d_jk) * 2/5
genR4Tensor ==
    [c \in Idx81 |->
        LET x == IJKL(c)
            i == x[1]
            j == x[2]
            k == x[3]
            l == x[4]
        IN  ((Delta(i, j) * Delta(k, l) + Delta(i, k) * Delta(j, l)
               + Delta(i, l) * Delta(j, k)) * 2 * TensorUnit) \div 5]

(***************************************************************************)
(* Orientations and rotate()                                               *)
(***************************************************************************)
Orientations == 0..7

\* quat * quat for two rotations about the same axis
QuatMul(a, b) == (a + b) % 8

Zero == [s |-> 0, h |-> 0]
One == [s |-> 1, h |-> 0]
Neg(a) == [s |-> -a.s, h |-> a.h]

\* cos and sin of q * 45 degrees
Cos(q) ==
    CASE q = 0 -> One
      [] q \in {1, 7} -> [s |-> 1, h |-> 1]
      [] q \in {2, 6} -> Zero
      [] q \in {3, 5} -> [s |-> -1, h |-> 1]
      [] q = 4 -> Neg(One)

Sin(q) == Cos((q + 6) % 8)

\* m_system_vectors[j] of the constructor, j = 0, 1, 2
m_system_vectors == <<  <<One, Zero, Zero>>, <<Zero, One, Zero>>, <<Zero, Zero, One>>  >>

\* rotate(orientation, m_system_vectors[j])
rotate(q, j) ==
    CASE j = 0 -> <<Cos(q), Sin(q), Zero>>
      [] j = 1 -> <<Neg(Sin(q)), Cos(q), Zero>>
      [] j = 2 -> <<Zero, Zero, One>>

\* the sum over the three rotated basis vectors, times 2
\* (calcCubaticTensor and calculatePerParticleTensor share it)
HomogeneousSum(q) ==
    tensor4_scale(
        tensor4_add(tensor4_add(tensor4_add(tensor4_zero, tensor4_vec(rotate(q, 0))),
                                tensor4_vec(rotate(q, 1))),
                    tensor4_vec(rotate(q, 2))),
        2)

\* HomogeneousSum, computed once for each orientation
HomogeneousTable == [q \in Orientations |-> HomogeneousSum(q)]

HomogeneousTensor(q) == HomogeneousTable[q]

\* calcCubaticTensor with m_gen_r4_tensor what genR4Tensor() returns, computed
\* once for each orientation
CubaticTensorTable == [q \in Orientations |-> tensor4_sub(HomogeneousTable[q], genR4Tensor)]

\* CubaticOrderParameter::calcCubaticTensor
calcCubaticTensor(gen_r4, q) ==
    IF gen_r4 = genR4Tensor THEN CubaticTensorTable[q]
    ELSE tensor4_sub(HomogeneousTensor(q), gen_r4)

\* 1 - dot(diff, diff) / dot(t, t) with diff = global - t
OrderParameterOf(global, t) ==
    LET diff == tensor4_sub(global, t)
        tt == dot(t, t)
    IN  Rat(tt - dot(diff, diff), tt)


(***************************************************************************)
(* Index2D (Index1D.h) and the random number generator Saru are used by    *)
(* CubaticOrderParameter.cc and defined elsewhere.                         *)
(***************************************************************************)
\* Index2D(w, h)(i, j): element j of the h-element slice of entry i
Index2D(w, h, i, j) == i * h + j

\* The salt of the replicates' streams: 0xffaabb
SaruSalt == 16755387

DrawValues == 0..3

\* The generator's state after pos draws of the stream Saru(seed, stream, salt):
\* the three words mixed, then one step of a 16 bit congruential generator
\* per draw
RECURSIVE SaruState(_, _, _, _)
SaruState(seed, stream, salt, pos) ==
    IF pos = 0 THEN (seed * 40503 + stream * 30011 + salt) % 65536
    ELSE (SaruState(seed, stream, salt, pos - 1) * 25173 + 13849) % 65536

\* The pos-th draw (its quarter, 0..3) of the stream Saru(seed, stream, salt)
SaruDraw(seed, stream, salt, pos) ==
    (SaruState(seed, stream, salt, pos + 1) \div 4096) % 4

(***************************************************************************)
(* State                                                                   *)
(***************************************************************************)
VARIABLES
    pc,                          \* where the CubaticOrderParameter object is
    ctor_error,                  \* the invalid_argument the constructor threw
    m_t_initial, m_t_final, m_scale, m_n, m_replicates, m_seed,
    m_global_tensor, m_cubatic_tensor, m_gen_r4_tensor,
    m_particle_tensor, m_particle_order_parameter,
    m_cubatic_orientation, m_cubatic_order_parameter,
    orientations,                \* the argument of compute, 0-based as i + 1
    tasks_left,                  \* index ranges of the running parallel_for
    p_cubatic_tensor, p_cubatic_order_parameter, p_cubatic_orientation,
    workers,                     \* one record per blocked_range of replicates
    max_idx

paramVars == <<m_t_initial, m_t_final, m_scale, m_n, m_replicates, m_seed>>
tensorVars == <<m_global_tensor, m_cubatic_tensor, m_gen_r4_tensor>>
particleVars == <<m_particle_tensor, m_particle_order_parameter>>
resultVars == <<m_cubatic_orientation, m_cubatic_order_parameter>>
replicateVars == <<p_cubatic_tensor, p_cubatic_order_parameter, p_cubatic_orientation>>
cubaticVars ==
    <<pc, ctor_error, paramVars, tensorVars, particleVars, resultVars,
      orientations, tasks_left, replicateVars, workers, max_idx>>

\* The AABBQuery object and the iterator its caller holds
VARIABLES
    q_pc,                        \* where the AABBQuery object is
    m_ref_points,                \* the reference points, 0-based as j + 1
    m_aabb_tree,                 \* the flat node array, 0-based as n + 1
    last_call,                   \* the member function called last
    q_error,                     \* what that call or next() threw
    iter,                        \* the iterator returned, None without one
    yielded,                     \* the NeighborPoints next() has returned
    terminators,                 \* how often next() returned the terminator
    m_rcut, nl_points, nl_exclude_ii, nl_i,   \* compute and its traversal
    m_neighbor_list

queryVars ==
    <<q_pc, m_ref_points, m_aabb_tree, last_call, q_error, iter, yielded,
      terminators, m_rcut, nl_points, nl_exclude_ii, nl_i, m_neighbor_list>>

\* The VoronoiBuffer object
VARIABLES
    vb_pc,                       \* where the VoronoiBuffer object is
    m_box,                       \* the box it was constructed with
    vb_points, vb_buff,          \* the arguments of the last compute
    m_buffer_particles,
    m_buffer_ids

voronoiVars == <<vb_pc, m_box, vb_points, vb_buff, m_buffer_particles, m_buffer_ids>>

\* The objects other than the CubaticOrderParameter
otherVars == <<queryVars, voronoiVars>>

RatZero == Rat(0, 1)
RatOne == Rat(1, 1)

\* The object before its constructor has run.  Its tensor4 members are
\* default-constructed (all zero), its arrays are not allocated.
CubaticInit ==
    /\ pc = "new"
    /\ ctor_error = ""
    /\ m_t_initial = RatZero /\ m_t_final = RatZero /\ m_scale = RatZero
    /\ m_n = 0 /\ m_replicates = 0 /\ m_seed = 0
    /\ m_global_tensor = tensor4_zero
    /\ m_cubatic_tensor = tensor4_zero
    /\ m_gen_r4_tensor = tensor4_zero
    /\ m_particle_tensor = << >>
    /\ m_particle_order_parameter = << >>
    /\ m_cubatic_orientation = 0
    /\ m_cubatic_order_parameter = RatZero
    /\ orientations = << >>
    /\ tasks_left = {}
    /\ p_cubatic_tensor = << >>
    /\ p_cubatic_order_parameter = << >>
    /\ p_cubatic_orientation = << >>
    /\ workers = << >>
    /\ max_idx = 0

(***************************************************************************)
(* The constructor                                                         *)
(***************************************************************************)
\* 1e-6 is 1 / TFinalMinDen
TFinalMinDen == 1000000

\* The sanity checks of the constructor, in their order: the message of the
\* first that fails, "" if none does
CtorCheck(t_initial, t_final, scale) ==
    IF RatLT(t_initial, t_final) THEN "t_initial must be greater than t_final"
    ELSE IF RatLT(t_final, Rat(1, TFinalMinDen)) THEN "t_final must be >= 1e-6"
    ELSE IF RatLT(RatOne, scale) \/ RatLT(scale, RatZero)
         THEN "scale must be between 0 and 1"
    ELSE ""

Construct(t_initial, t_final, scale, replicates, seed) ==
    /\ pc = "new"
    /\ m_t_initial' = t_initial
    /\ m_t_final' = t_final
    /\ m_scale' = scale
    /\ m_n' = 0
    /\ m_replicates' = replicates
    /\ m_seed' = seed
    /\ ctor_error' = CtorCheck(t_initial, t_final, scale)
    /\ IF ctor_error' # ""
       THEN /\ pc' = "ctor_failed"
            /\ UNCHANGED <<tensorVars, particleVars>>
       ELSE /\ pc' = "idle"
            /\ m_global_tensor' = tensor4_zero
            /\ m_cubatic_tensor' = tensor4_zero
            /\ m_gen_r4_tensor' = genR4Tensor
            /\ m_particle_tensor' = [x \in 1..(m_n' * 81) |-> 0]
            /\ m_particle_order_parameter' = [x \in 1..m_n' |-> RatZero]
    /\ UNCHANGED <<otherVars, resultVars, orientations, tasks_left, replicateVars, workers,
                   max_idx>>

(***************************************************************************)
(* compute: lines 292-319, before the replicates                           *)
(***************************************************************************)
\* calculatePerParticleTensor, the loop body for particle i (0-based): the
\* array with the 81 values of particle i set
SetParticleTensor(array, n, oris, i) ==
    LET l_mbar == HomogeneousTensor(oris[i + 1])
    IN  [x \in 1..(n * 81) |->
            IF \E j \in 0..80 : x = Index2D(n, 81, i, j) + 1
            THEN l_mbar[(CHOOSE j \in 0..80 : x = Index2D(n, 81, i, j) + 1) + 1]
            ELSE array[x]]

RECURSIVE SumParticles(_, _, _, _)
SumParticles(array, n, i, j) ==
    IF j >= n THEN 0
    ELSE array[Index2D(n, 81, j, i) + 1] + SumParticles(array, n, i, j + 1)

\* calculateGlobalTensor, the loop body for element i (0-based) of the tensor:
\* the mean over the particles
GlobalTensorValue(array, n, i) == SumParticles(array, n, i, 0) \div n

RECURSIVE AllParticleTensors(_, _, _, _)
AllParticleTensors(array, n, oris, i) ==
    IF i >= n THEN array
    ELSE AllParticleTensors(SetParticleTensor(array, n, oris, i), n, oris, i + 1)

\* The global tensor compute reaches for the orientations oris
GlobalTensorFor(oris) ==
    LET n == Len(oris)
        array == AllParticleTensors([x \in 1..(n * 81) |-> 0], n, oris, 0)
    IN  tensor4_sub([c \in Idx81 |-> GlobalTensorValue(array, n, c - 1)], genR4Tensor)

\* The arrays of orientations compute is called with
OrientationInputs == {<<0>>, <<0, 1>>, <<1, 3>>}

\* OrderParameterOf, computed once for each of these global tensors and each
\* cubatic tensor of an orientation
OrderParameterTable ==
    [g \in {GlobalTensorFor(oris) : oris \in OrientationInputs} |->
        [t \in {calcCubaticTensor(genR4Tensor, q) : q \in Orientations} |->
            OrderParameterOf(g, t)]]

\* CubaticOrderParameter::calcCubaticOrderParameter
calcCubaticOrderParameter(global, t) ==
    IF global \in DOMAIN OrderParameterTable
    THEN IF t \in DOMAIN OrderParameterTable[global]
         THEN OrderParameterTable[global][t]
         ELSE OrderParameterOf(global, t)
    ELSE OrderParameterOf(global, t)

(***************************************************************************)
(* compute: one replicate, lines 331-377                                   *)
(***************************************************************************)
\* calcRandomQuaternion(saru, angle_multiplier) from its three draws.  The
\* axis is +z or -z by the sign of cos(phi) = 2 u_phi - 1; a rotation angle
\* above 0 is one step of the 45 degree lattice.
calcRandomQuaternion(u_theta, u_phi, u_angle) ==
    IF u_angle = 0 THEN 0
    ELSE IF 2 * u_phi >= 4 THEN 1 ELSE 7

\* boltzmann_factor >= test_value, for exp(-x) with
\* x = (cubatic_order_parameter - new_order_parameter) / t_current >= 0 and
\* test_value = test / 4 (the float test_value of line 363):  exp(-x) >= q/4  iff  x <= ln(4/q), and
\* ln 4 ~ 7/5, ln 2 ~ 7/10, ln(4/3) ~ 2/7
BoltzmannAccepts(cubatic_op, new_op, t_current, test) ==
    LET x == RatDiv(RatSub(cubatic_op, new_op), t_current)
    IN  CASE test = 0 -> TRUE
          [] test = 1 -> RatLE(x, Rat(7, 5))
          [] test = 2 -> RatLE(x, Rat(7, 10))
          [] test = 3 -> RatLE(x, Rat(2, 7))

\* The locals of one blocked_range of replicates [begin, end): the stream
\* l_saru (its position pos), the replicate i, and the locals of the loop
\* body.  at is where the worker is; branch is how the last iteration of the
\* annealing loop ended: "improved" (line 357), "boltzmann" (line 369), both
\* going on to line 376, or "continue" (line 373).
NewWorker(begin, end) ==
    [begin |-> begin, end |-> end, i |-> begin, pos |-> 0, at |-> "start",
     cubatic_tensor |-> tensor4_zero, new_cubatic_tensor |-> tensor4_zero,
     cubatic_orientation |-> 0, current_orientation |-> 0,
     cubatic_order_parameter |-> RatZero, new_order_parameter |-> RatZero,
     t_current |-> RatZero, loop_count |-> 0, branch |-> "none"]

\* lines 331-343: the random start of replicate w.i; q is what
\* calcRandomQuaternion(l_saru) returned
AnnealStart(w, global, gen_r4, t_initial, q) ==
    LET t == calcCubaticTensor(gen_r4, q)
        op == calcCubaticOrderParameter(global, t)
    IN  [w EXCEPT !.at = "loop",
                  !.cubatic_tensor = t, !.new_cubatic_tensor = tensor4_zero,
                  !.cubatic_orientation = q, !.current_orientation = q,
                  !.cubatic_order_parameter = op, !.new_order_parameter = op,
                  !.t_current = t_initial, !.loop_count = 0, !.branch = "none"]

\* The iteration bound of the annealing loop
MaxLoopCount == 10000

\* line 345: the loop condition
LoopContinues(w, t_final) ==
    RatLT(t_final, w.t_current) /\ w.loop_count < MaxLoopCount

\* The proposal is an improvement (line 352)
Improves(new_op, cubatic_op) == RatLT(cubatic_op, new_op)

\* AnnealIteration with loop_count++ after the continue of line 373: a rejected
\* proposal is not counted
AnnealIterationUncounted(w, global, gen_r4, scale, rotation, test) ==
    LET current == QuatMul(rotation, w.cubatic_orientation)
        new_t == calcCubaticTensor(gen_r4, current)
        new_op == calcCubaticOrderParameter(global, new_t)
        proposed == [w EXCEPT !.current_orientation = current,
                              !.new_cubatic_tensor = new_t,
                              !.new_order_parameter = new_op]
        accepted == [proposed EXCEPT !.loop_count = @ + 1,
                                     !.cubatic_tensor = new_t,
                                     !.cubatic_order_parameter = new_op,
                                     !.cubatic_orientation = current,
                                     !.t_current = RatMul(@, scale)]
    IN  IF Improves(new_op, w.cubatic_order_parameter)
        THEN [accepted EXCEPT !.branch = "improved"]
        ELSE IF BoltzmannAccepts(w.cubatic_order_parameter, new_op, w.t_current, test)
             THEN [accepted EXCEPT !.branch = "boltzmann"]
             ELSE [proposed EXCEPT !.branch = "continue"]

\* AnnealIteration without the continue of line 373: a rejected proposal
\* cools the temperature too
AnnealIterationCoolsAlways(w, global, gen_r4, scale, rotation, test) ==
    LET current == QuatMul(rotation, w.cubatic_orientation)
        new_t == calcCubaticTensor(gen_r4, current)
        new_op == calcCubaticOrderParameter(global, new_t)
        proposed == [w EXCEPT !.loop_count = @ + 1,
                              !.current_orientation = current,
                              !.new_cubatic_tensor = new_t,
                              !.new_order_parameter = new_op,
                              !.t_current = RatMul(@, scale)]
        accepted == [proposed EXCEPT !.cubatic_tensor = new_t,
                                     !.cubatic_order_parameter = new_op,
                                     !.cubatic_orientation = current]
    IN  IF Improves(new_op, w.cubatic_order_parameter)
        THEN [accepted EXCEPT !.branch = "improved"]
        ELSE IF BoltzmannAccepts(w.cubatic_order_parameter, new_op, w.t_current, test)
             THEN [accepted EXCEPT !.branch = "boltzmann"]
             ELSE [proposed EXCEPT !.branch = "continue"]

\* AnnealIteration without line 369: a proposal accepted by the Boltzmann
\* test leaves the orientation behind
AnnealIterationStaleOrientation(w, global, gen_r4, scale, rotation, test) ==
    LET current == QuatMul(rotation, w.cubatic_orientation)
        new_t == calcCubaticTensor(gen_r4, current)
        new_op == calcCubaticOrderParameter(global, new_t)
        proposed == [w EXCEPT !.loop_count = @ + 1,
                              !.current_orientation = current,
                              !.new_cubatic_tensor = new_t,
                              !.new_order_parameter = new_op]
        accepted == [proposed EXCEPT !.cubatic_tensor = new_t,
                                     !.cubatic_order_parameter = new_op,
                                     !.cubatic_orientation = current,
                                     !.t_current = RatMul(@, scale)]
    IN  IF Improves(new_op, w.cubatic_order_parameter)
        THEN [accepted EXCEPT !.branch = "improved"]
        ELSE IF BoltzmannAccepts(w.cubatic_order_parameter, new_op, w.t_current, test)
             THEN [accepted EXCEPT !.branch = "boltzmann",
                                   !.cubatic_orientation = w.cubatic_orientation]
             ELSE [proposed EXCEPT !.branch = "continue"]

\* lines 347-376: one iteration of the loop; rotation is what
\* calcRandomQuaternion(l_saru, 0.1) returned, test the draw of line 363, which
\* is taken only when the proposal is no improvement
AnnealIteration(w, global, gen_r4, scale, rotation, test) ==
    LET current == QuatMul(rotation, w.cubatic_orientation)
        new_t == calcCubaticTensor(gen_r4, current)
        new_op == calcCubaticOrderParameter(global, new_t)
        proposed == [w EXCEPT !.loop_count = @ + 1,
                              !.current_orientation = current,
                              !.new_cubatic_tensor = new_t,
                              !.new_order_parameter = new_op]
        accepted == [proposed EXCEPT !.cubatic_tensor = new_t,
                                     !.cubatic_order_parameter = new_op,
                                     !.cubatic_orientation = current,
                                     !.t_current = RatMul(@, scale)]
    IN  IF Improves(new_op, w.cubatic_order_parameter)
        THEN [accepted EXCEPT !.branch = "improved"]
        ELSE IF BoltzmannAccepts(w.cubatic_order_parameter, new_op, w.t_current, test)
             THEN [accepted EXCEPT !.branch = "boltzmann"]
             ELSE [proposed EXCEPT !.branch = "continue"]

(***************************************************************************)
(* compute: the actions                                                    *)
(***************************************************************************)
\* The ranges a parallel_for may hand to its body: blocked_range [b, e) is
\* run whole or split at its middle, and so on for each half.
RECURSIVE Partitions(_, _)
Partitions(b, e) ==
    LET m == b + (e - b) \div 2
    IN  { << <<b, e>> >> } \cup
        (IF e - b < 2 THEN {}
         ELSE {p \o q : p \in Partitions(b, m), q \in Partitions(m, e)})

\* lines 292-301 and the call of calculatePerParticleTensor
BeginCompute(oris) ==
    /\ pc = "idle"
    /\ orientations' = oris
    /\ m_n' = Len(oris)
    /\ m_global_tensor' = tensor4_zero
    /\ m_particle_tensor' = [x \in 1..(m_n' * 81) |-> 0]
    /\ m_particle_order_parameter' = [x \in 1..m_n' |-> RatZero]
    /\ tasks_left' = 0..(m_n' - 1)
    /\ pc' = "particle_tensor"
    /\ UNCHANGED <<otherVars, ctor_error, m_t_initial, m_t_final, m_scale, m_replicates, m_seed,
                   m_cubatic_tensor, m_gen_r4_tensor, resultVars, replicateVars,
                   workers, max_idx>>

\* calculatePerParticleTensor: the body for particle i
ParticleTensorTask(i) ==
    /\ pc = "particle_tensor"
    /\ i \in tasks_left
    /\ m_particle_tensor' = SetParticleTensor(m_particle_tensor, m_n, orientations, i)
    /\ tasks_left' = tasks_left \ {i}
    /\ UNCHANGED <<otherVars, pc, ctor_error, paramVars, tensorVars, m_particle_order_parameter,
                   resultVars, orientations, replicateVars, workers, max_idx>>

\* The ranges of the 81 elements the global reduction runs as tasks
GlobalRanges == {0, 27, 54}

\* StartGlobalTensor if parallel_for returned with tasks still to run
StartGlobalTensorNoBarrier ==
    /\ pc = "particle_tensor"
    /\ pc' = "global_tensor"
    /\ tasks_left' = GlobalRanges
    /\ UNCHANGED <<otherVars, ctor_error, paramVars, tensorVars, particleVars, resultVars,
                   orientations, replicateVars, workers, max_idx>>

\* line 305: calculatePerParticleTensor has returned, calculateGlobalTensor starts
StartGlobalTensor ==
    /\ pc = "particle_tensor"
    /\ tasks_left = {}
    /\ pc' = "global_tensor"
    /\ tasks_left' = GlobalRanges
    /\ UNCHANGED <<otherVars, ctor_error, paramVars, tensorVars, particleVars, resultVars,
                   orientations, replicateVars, workers, max_idx>>

\* calculateGlobalTensor: the body for the elements [b, b + 27)
GlobalTensorTask(b) ==
    /\ pc = "global_tensor"
    /\ b \in tasks_left
    /\ m_global_tensor' =
          [c \in Idx81 |->
              IF c - 1 >= b /\ c - 1 < b + 27
              THEN GlobalTensorValue(m_particle_tensor, m_n, c - 1)
              ELSE m_global_tensor[c]]
    /\ tasks_left' = tasks_left \ {b}
    /\ UNCHANGED <<otherVars, pc, ctor_error, paramVars, m_cubatic_tensor, m_gen_r4_tensor,
                   particleVars, resultVars, orientations, replicateVars, workers,
                   max_idx>>

\* line 286, lines 311-319 and the start of the replicates' parallel_for,
\* which runs the ranges of `partition`
StartReplicates(partition) ==
    /\ pc = "global_tensor"
    /\ tasks_left = {}
    /\ m_global_tensor' = tensor4_sub(m_global_tensor, m_gen_r4_tensor)
    /\ p_cubatic_tensor' = [x \in 1..(m_replicates * 81) |-> 0]
    /\ p_cubatic_order_parameter' = [x \in 1..m_replicates |-> RatZero]
    /\ p_cubatic_orientation' = [x \in 1..m_replicates |-> 0]
    /\ workers' = [k \in 1..Len(partition) |->
                      NewWorker(partition[k][1], partition[k][2])]
    /\ pc' = "replicates"
    /\ UNCHANGED <<otherVars, ctor_error, paramVars, m_cubatic_tensor, m_gen_r4_tensor,
                   particleVars, resultVars, orientations, tasks_left, max_idx>>

replicateFrame ==
    <<otherVars, pc, ctor_error, paramVars, tensorVars, particleVars, resultVars,
      orientations, tasks_left, max_idx>>

\* lines 331-343 of worker k, calcRandomQuaternion having returned q
ReplicateStart(k, q) ==
    /\ pc = "replicates"
    /\ workers[k].at = "start"
    /\ workers' = [workers EXCEPT ![k] =
          AnnealStart(@, m_global_tensor, m_gen_r4_tensor, m_t_initial, q)]
    /\ UNCHANGED <<replicateFrame, replicateVars>>

\* lines 345-377 of worker k: one iteration, calcRandomQuaternion having
\* returned rotation and the test value drawn, if one is, being test
ReplicateIterate(k, rotation, test) ==
    /\ pc = "replicates"
    /\ workers[k].at = "loop"
    /\ LoopContinues(workers[k], m_t_final)
    /\ workers' = [workers EXCEPT ![k] =
          AnnealIteration(@, m_global_tensor, m_gen_r4_tensor, m_scale,
                          rotation, test)]
    /\ UNCHANGED <<replicateFrame, replicateVars>>

\* TensorSlot with the replicate as the stride-1 index: slot i starts at i
TensorSlotInterleaved(i) == i

\* The first index of replicate i's 81 values in p_cubatic_tensor (line 379)
TensorSlot(i) == Index2D(m_replicates, 81, i, 0)

\* The locals of the annealing loop that nothing reads once the loop is left
LeaveLoop(w) ==
    [w EXCEPT !.new_cubatic_tensor = tensor4_zero, !.current_orientation = 0,
              !.new_order_parameter = RatZero, !.t_current = RatZero,
              !.loop_count = 0, !.branch = "none"]

\* The loop is left (line 345), and lines 379-380: memcpy of the 81 values of
\* cubatic_tensor
WriteTensor(k) ==
    /\ pc = "replicates"
    /\ workers[k].at = "loop"
    /\ ~LoopContinues(workers[k], m_t_final)
    /\ LET first == TensorSlot(workers[k].i)
       IN  p_cubatic_tensor' =
              [x \in DOMAIN p_cubatic_tensor |->
                  IF x - 1 >= first /\ x - 1 < first + 81
                  THEN workers[k].cubatic_tensor[x - first]
                  ELSE p_cubatic_tensor[x]]
    /\ workers' = [workers EXCEPT ![k] = [LeaveLoop(@) EXCEPT !.at = "write_orientation"]]
    /\ UNCHANGED <<replicateFrame, p_cubatic_order_parameter, p_cubatic_orientation>>

\* lines 381-382
WriteOrientation(k) ==
    /\ pc = "replicates"
    /\ workers[k].at = "write_orientation"
    /\ p_cubatic_orientation' =
          [p_cubatic_orientation EXCEPT ![workers[k].i + 1] =
              workers[k].cubatic_orientation]
    /\ workers' = [workers EXCEPT ![k].at = "write_order_parameter"]
    /\ UNCHANGED <<replicateFrame, p_cubatic_tensor, p_cubatic_order_parameter>>

\* line 383, and the step of the for loop of line 329
WriteOrderParameter(k) ==
    /\ pc = "replicates"
    /\ workers[k].at = "write_order_parameter"
    /\ p_cubatic_order_parameter' =
          [p_cubatic_order_parameter EXCEPT ![workers[k].i + 1] =
              workers[k].cubatic_order_parameter]
    /\ workers' = [workers EXCEPT
          ![k].i = @ + 1,
          ![k].at = IF workers[k].i + 1 = workers[k].end THEN "done" ELSE "start"]
    /\ UNCHANGED <<replicateFrame, p_cubatic_tensor, p_cubatic_orientation>>

\* lines 331-377 of worker k at once, its draws those of its stream
\* l_saru = Saru(m_seed, begin, 0xffaabb) from the position it has reached
StreamDraw(w, seed, offset) == SaruDraw(seed, w.begin, SaruSalt, w.pos + offset)

\* The draws an iteration from w to next has taken from l_saru: three for the
\* proposal and, when it is no improvement, the test value
IterationDraws(w, next) ==
    IF Improves(next.new_order_parameter, w.cubatic_order_parameter) THEN 3 ELSE 4

RECURSIVE AnnealLoop(_, _, _, _, _, _)
AnnealLoop(w, global, gen_r4, t_final, scale, seed) ==
    IF ~LoopContinues(w, t_final) THEN w
    ELSE LET next == AnnealIteration(w, global, gen_r4, scale,
                                     calcRandomQuaternion(StreamDraw(w, seed, 0),
                                                          StreamDraw(w, seed, 1),
                                                          StreamDraw(w, seed, 2)),
                                     StreamDraw(w, seed, 3))
         IN  AnnealLoop([next EXCEPT !.pos = w.pos + IterationDraws(w, next)],
                        global, gen_r4, t_final, scale, seed)

ReplicateRun(k) ==
    /\ pc = "replicates"
    /\ workers[k].at = "start"
    /\ LET w == workers[k]
           started == AnnealStart(w, m_global_tensor, m_gen_r4_tensor, m_t_initial,
                                  calcRandomQuaternion(StreamDraw(w, m_seed, 0),
                                                       StreamDraw(w, m_seed, 1),
                                                       StreamDraw(w, m_seed, 2)))
       IN  workers' = [workers EXCEPT ![k] =
              AnnealLoop([started EXCEPT !.pos = w.pos + 3],
                         m_global_tensor, m_gen_r4_tensor, m_t_final, m_scale, m_seed)]
    /\ UNCHANGED <<replicateFrame, replicateVars>>

RECURSIVE MaxScan(_, _, _, _)
\* MaxScan with >= for the > of line 392: a later replicate replaces an equal one
MaxScanLastWins(ops, n, i, best) ==
    IF i >= n THEN best
    ELSE MaxScan(ops, n, i + 1, IF RatLE(ops[best + 1], ops[i + 1]) THEN i ELSE best)

\* lines 388-397: the replicate with the highest order parameter, the scan
\* from replicate i on with the best so far
MaxScan(ops, n, i, best) ==
    IF i >= n THEN best
    ELSE MaxScan(ops, n, i + 1, IF RatLT(ops[best + 1], ops[i + 1]) THEN i ELSE best)

\* lines 387-405, and the start of the parallel_for of line 408
SelectBest ==
    /\ pc = "replicates"
    /\ \A k \in DOMAIN workers : workers[k].at = "done"
    /\ max_idx' = MaxScan(p_cubatic_order_parameter, m_replicates, 1, 0)
    /\ LET first == TensorSlot(max_idx')
       IN  m_cubatic_tensor' = [c \in Idx81 |-> p_cubatic_tensor[first + c]]
    /\ m_cubatic_orientation' = p_cubatic_orientation[max_idx' + 1]
    /\ m_cubatic_order_parameter' = p_cubatic_order_parameter[max_idx' + 1]
    /\ tasks_left' = 0..(m_n - 1)
    /\ pc' = "particle_order_parameter"
    /\ UNCHANGED <<otherVars, ctor_error, paramVars, m_global_tensor, m_gen_r4_tensor,
                   particleVars, orientations, replicateVars, workers>>

\* lines 408-423: the body for particle i
ParticleOrderParameterTask(i) ==
    /\ pc = "particle_order_parameter"
    /\ i \in tasks_left
    /\ LET l_particle_tensor == calcCubaticTensor(m_gen_r4_tensor, orientations[i + 1])
           l_particle_op == calcCubaticOrderParameter(m_global_tensor, l_particle_tensor)
       IN  m_particle_order_parameter' =
              [m_particle_order_parameter EXCEPT ![i + 1] = l_particle_op]
    /\ tasks_left' = tasks_left \ {i}
    /\ UNCHANGED <<otherVars, pc, ctor_error, paramVars, tensorVars, m_particle_tensor,
                   resultVars, orientations, replicateVars, workers, max_idx>>

\* line 424: compute returns
FinishCompute ==
    /\ pc = "particle_order_parameter"
    /\ tasks_left = {}
    /\ pc' = "done"
    /\ UNCHANGED <<otherVars, ctor_error, paramVars, tensorVars, particleVars, resultVars,
                   orientations, tasks_left, replicateVars, workers, max_idx>>

(***************************************************************************)
(* AABBQuery: a periodic box, a tree of point AABBs, its two iterators     *)
(*                                                                         *)
(* AABBQuery.h declares the class and its iterators; the bodies of         *)
(* buildTree, updateImageVectors, traverseTree and of the two next() are   *)
(* written here after the specification of the query engine.  The box is   *)
(* two-dimensional and square, coordinates and radii are integers, a       *)
(* distance is kept as its square.                                         *)
(***************************************************************************)
BoxL == 4
NodeCapacity == 2

None == [kind |-> "none"]

Min2(a, b) == IF a < b THEN a ELSE b
Max2(a, b) == IF a < b THEN b ELSE a

\* The squared distance of two points, no image taken
DistSq(a, b) ==
    (a[1] - b[1]) * (a[1] - b[1]) + (a[2] - b[2]) * (a[2] - b[2])

\* The box wraps a difference of coordinates into (-L/2, L/2]
MinImage(d) ==
    LET m == d % BoxL
    IN  IF 2 * m > BoxL THEN m - BoxL ELSE m

\* The squared minimum-image distance of two points
MinImageDistSq(a, b) ==
    LET dx == MinImage(a[1] - b[1])
        dy == MinImage(a[2] - b[2])
    IN  dx * dx + dy * dy

\* AABB: the lower and the upper corner
AABB(lower, upper) == [lower |-> lower, upper |-> upper]

\* The AABB of the ball of radius r about p
AABBSphere(p, r) == AABB(<<p[1] - r, p[2] - r>>, <<p[1] + r, p[2] + r>>)

merge(a, b) ==
    AABB(<<Min2(a.lower[1], b.lower[1]), Min2(a.lower[2], b.lower[2])>>,
         <<Max2(a.upper[1], b.upper[1]), Max2(a.upper[2], b.upper[2])>>)

\* Open intervals: boxes that only touch do not overlap
overlapsOpen(a, b) ==
    /\ a.lower[1] < b.upper[1] /\ b.lower[1] < a.upper[1]
    /\ a.lower[2] < b.upper[2] /\ b.lower[2] < a.upper[2]

\* Closed intervals on both axes: touching counts
overlaps(a, b) ==
    /\ a.lower[1] <= b.upper[1] /\ b.lower[1] <= a.upper[1]
    /\ a.lower[2] <= b.upper[2] /\ b.lower[2] <= a.upper[2]

\* The AABB of the points with the indices idxs (0-based) of refs
RECURSIVE AABBOfPoints(_, _, _)
AABBOfPoints(refs, idxs, n) ==
    LET p == refs[idxs[n] + 1]
    IN  IF n = 1 THEN AABB(p, p)
        ELSE merge(AABB(p, p), AABBOfPoints(refs, idxs, n - 1))

HalfPerimeter(a) == (a.upper[1] - a.lower[1]) + (a.upper[2] - a.lower[2])

\* idxs ordered by the coordinate on axis, equal coordinates by index
RECURSIVE InsertByAxis(_, _, _, _)
InsertByAxis(refs, axis, sorted, j) ==
    IF sorted = <<>> THEN <<j>>
    ELSE LET h == Head(sorted)
         IN  IF \/ refs[j + 1][axis] < refs[h + 1][axis]
                \/ (refs[j + 1][axis] = refs[h + 1][axis] /\ j < h)
             THEN <<j>> \o sorted
             ELSE <<h>> \o InsertByAxis(refs, axis, Tail(sorted), j)

RECURSIVE SortByAxis(_, _, _)
SortByAxis(refs, axis, idxs) ==
    IF idxs = <<>> THEN <<>>
    ELSE InsertByAxis(refs, axis, SortByAxis(refs, axis, Tail(idxs)), Head(idxs))

\* The two halves of idxs along axis and the summed size of their AABBs
SplitAlong(refs, axis, idxs) ==
    LET sorted == SortByAxis(refs, axis, idxs)
        half == Len(sorted) \div 2
        left == SubSeq(sorted, 1, half)
        right == SubSeq(sorted, half + 1, Len(sorted))
    IN  [left |-> left, right |-> right,
         cost |-> HalfPerimeter(AABBOfPoints(refs, left, Len(left)))
                  + HalfPerimeter(AABBOfPoints(refs, right, Len(right)))]

\* The nodes of the subtree over idxs in pre-order; skip is the number of
\* nodes below a node, so that a traversal steps over a subtree by skip + 1
RECURSIVE buildNodes(_, _)
buildNodes(refs, idxs) ==
    LET box == AABBOfPoints(refs, idxs, Len(idxs))
    IN  IF Len(idxs) <= NodeCapacity
        THEN << [aabb |-> box, leaf |-> TRUE, skip |-> 0, particles |-> idxs] >>
        ELSE LET sx == SplitAlong(refs, 1, idxs)
                 sy == SplitAlong(refs, 2, idxs)
                 s == IF sy.cost < sx.cost THEN sy ELSE sx
                 l == buildNodes(refs, s.left)
                 r == buildNodes(refs, s.right)
             IN  << [aabb |-> box, leaf |-> FALSE, skip |-> Len(l) + Len(r),
                     particles |-> <<>>] >> \o l \o r

buildTree(refs) == buildNodes(refs, [n \in 1..Len(refs) |-> n - 1])

\* The translation vectors to query for: none but zero for a radius of zero,
\* else zero first and then the eight neighbouring images of the box
updateImageVectors(rmax) ==
    IF rmax = 0 THEN << <<0, 0>> >>
    ELSE LET offs == <<0, -1, 1>>
         IN  [n \in 1..9 |-> <<offs[((n - 1) % 3) + 1] * BoxL,
                               offs[((n - 1) \div 3) + 1] * BoxL>>]

NeighborPoint(ref_id, distance) == [ref_id |-> ref_id, distance |-> distance]
ITERATOR_TERMINATOR == NeighborPoint(-1, -1)

\* A faulty variant: the pair (i, i) dropped under every image
SelfPairAnyImage(exclude, j, image) == exclude = j

\* exclude is the index of the query point when exclude_ii is set, else -1:
\* the pair (i, i) is dropped under the zero image only
SelfPair(exclude, j, image) == exclude = j /\ image = <<0, 0>>

\* A traversal position: the image, the node and the point within the leaf
TraversalStart(point, r, exclude, images) ==
    [point |-> point, m_r |-> r, exclude |-> exclude, m_image_list |-> images,
     cur_image |-> 0, cur_node_idx |-> 0, cur_p |-> 0]

\* Resume the traversal at t until a point within m_r is found or every
\* image and node is visited; out is that point or the terminator
RECURSIVE Walk(_, _, _)
Walk(tree, refs, t) ==
    IF t.cur_image >= Len(t.m_image_list)
    THEN [t |-> t, out |-> ITERATOR_TERMINATOR]
    ELSE IF t.cur_node_idx >= Len(tree)
    THEN Walk(tree, refs, [t EXCEPT !.cur_image = @ + 1, !.cur_node_idx = 0, !.cur_p = 0])
    ELSE
      LET image == t.m_image_list[t.cur_image + 1]
          pos_image == <<t.point[1] + image[1], t.point[2] + image[2]>>
          node == tree[t.cur_node_idx + 1]
      IN  IF ~overlaps(node.aabb, AABBSphere(pos_image, t.m_r))
          THEN Walk(tree, refs, [t EXCEPT !.cur_node_idx = @ + node.skip + 1, !.cur_p = 0])
          ELSE IF ~node.leaf \/ t.cur_p >= Len(node.particles)
          THEN Walk(tree, refs, [t EXCEPT !.cur_node_idx = @ + 1, !.cur_p = 0])
          ELSE
            LET j == node.particles[t.cur_p + 1]
                d == DistSq(refs[j + 1], pos_image)
                t2 == [t EXCEPT !.cur_p = @ + 1]
            IN  IF d <= t.m_r * t.m_r /\ ~SelfPair(t.exclude, j, image)
                THEN [t |-> t2, out |-> NeighborPoint(j, d)]
                ELSE Walk(tree, refs, t2)

\* Every point a traversal from t on finds, in the order it finds them
RECURSIVE WalkAll(_, _, _)
WalkAll(tree, refs, t) ==
    LET s == Walk(tree, refs, t)
    IN  IF s.out = ITERATOR_TERMINATOR THEN <<>>
        ELSE <<s.out>> \o WalkAll(tree, refs, s.t)

(***************************************************************************)
(* The k-nearest search                                                    *)
(***************************************************************************)
\* a comes no later than b: by distance, equal distances by point index
NeighborOrdered(a, b) ==
    \/ a.distance < b.distance
    \/ (a.distance = b.distance /\ a.ref_id <= b.ref_id)

RECURSIVE InsertNeighbor(_, _)
InsertNeighbor(sorted, e) ==
    IF sorted = <<>> THEN <<e>>
    ELSE IF NeighborOrdered(e, Head(sorted)) THEN <<e>> \o sorted
         ELSE <<Head(sorted)>> \o InsertNeighbor(Tail(sorted), e)

RECURSIVE SortNeighbors(_)
SortNeighbors(found) ==
    IF found = <<>> THEN <<>>
    ELSE InsertNeighbor(SortNeighbors(Tail(found)), Head(found))

RECURSIVE KnnSearch(_, _, _, _, _, _)
\* A faulty variant: at the last radius under the bound it settles for the
\* candidates it has
KnnSearchTruncating(tree, refs, point, k, r, scale) ==
    LET found == WalkAll(tree, refs, TraversalStart(point, r, -1, updateImageVectors(r)))
    IN  IF r > BoxL THEN [ok |-> FALSE, m_r |-> r, found |-> <<>>]
        ELSE IF Len(found) >= k \/ r * scale > BoxL
             THEN [ok |-> TRUE, m_r |-> r, found |-> SortNeighbors(found)]
             ELSE KnnSearch(tree, refs, point, k, r * scale, scale)

\* A ball query at radius r; with fewer than k candidates r is multiplied by
\* scale and the query run again from scratch, until r exceeds the bound
KnnSearch(tree, refs, point, k, r, scale) ==
    LET found == WalkAll(tree, refs, TraversalStart(point, r, -1, updateImageVectors(r)))
    IN  IF r > BoxL THEN [ok |-> FALSE, m_r |-> r, found |-> <<>>]
        ELSE IF Len(found) >= k
             THEN [ok |-> TRUE, m_r |-> r, found |-> SortNeighbors(found)]
             ELSE KnnSearch(tree, refs, point, k, r * scale, scale)

(***************************************************************************)
(* The member functions of AABBQuery and of its iterators                  *)
(***************************************************************************)
NoCall == [name |-> "none"]

QueryInit ==
    /\ q_pc = "new"
    /\ m_ref_points = <<>>
    /\ m_aabb_tree = <<>>
    /\ last_call = NoCall
    /\ q_error = ""
    /\ iter = None
    /\ yielded = <<>>
    /\ terminators = 0
    /\ m_rcut = 0
    /\ nl_points = <<>>
    /\ nl_exclude_ii = FALSE
    /\ nl_i = 0
    /\ m_neighbor_list = <<>>

callerFrame == <<m_rcut, nl_points, nl_exclude_ii, nl_i, m_neighbor_list>>

\* AABBQuery(box, ref_points, Nref)
AABBQueryNew(refs) ==
    /\ q_pc = "new"
    /\ q_pc' = "ready"
    /\ m_ref_points' = refs
    /\ m_aabb_tree' = buildTree(refs)
    /\ last_call' = [name |-> "AABBQuery"]
    /\ UNCHANGED <<q_error, iter, yielded, terminators, callerFrame, cubaticVars, voronoiVars>>

AABBQueryIterator(point, k, r, scale) ==
    [kind |-> "knn", point |-> point, m_k |-> k, m_r |-> r, m_scale |-> scale,
     m_image_list |-> updateImageVectors(0), m_current_neighbors |-> <<>>,
     searched |-> FALSE]

AABBQueryBallIterator(point, r) ==
    [kind |-> "ball", t |-> TraversalStart(point, r, -1, updateImageVectors(r))]

\* A faulty variant of query(point, k): radius and scale defaulted
QueryPlainDefaulted(point, k) ==
    /\ q_pc = "ready"
    /\ iter = None
    /\ last_call' = [name |-> "query(point, k)", point |-> point, k |-> k]
    /\ q_error' = ""
    /\ iter' = AABBQueryIterator(point, k, 1, 2)
    /\ UNCHANGED <<q_pc, m_ref_points, m_aabb_tree, yielded, terminators,
                   callerFrame, cubaticVars, voronoiVars>>

\* query(point, k) throws
QueryPlain(point, k) ==
    /\ q_pc = "ready"
    /\ iter = None
    /\ last_call' = [name |-> "query(point, k)", point |-> point, k |-> k]
    /\ q_error' = "runtime_error"
    /\ UNCHANGED <<q_pc, m_ref_points, m_aabb_tree, iter, yielded, terminators,
                   callerFrame, cubaticVars, voronoiVars>>

\* query(point, k, r, scale)
Query(point, k, r, scale) ==
    /\ q_pc = "ready"
    /\ iter = None
    /\ last_call' = [name |-> "query(point, k, r, scale)", point |-> point,
                     k |-> k, r |-> r, scale |-> scale]
    /\ q_error' = ""
    /\ iter' = AABBQueryIterator(point, k, r, scale)
    /\ UNCHANGED <<q_pc, m_ref_points, m_aabb_tree, yielded, terminators,
                   callerFrame, cubaticVars, voronoiVars>>

\* queryBall(point, r)
QueryBall(point, r) ==
    /\ q_pc = "ready"
    /\ iter = None
    /\ last_call' = [name |-> "queryBall", point |-> point, r |-> r]
    /\ IF r > BoxL
       THEN q_error' = "CutoffTooLarge" /\ UNCHANGED iter
       ELSE q_error' = "" /\ iter' = AABBQueryBallIterator(point, r)
    /\ UNCHANGED <<q_pc, m_ref_points, m_aabb_tree, yielded, terminators,
                   callerFrame, cubaticVars, voronoiVars>>

MaxTerminators == 2

\* AABBQueryBallIterator::next()
BallNext ==
    /\ iter.kind = "ball"
    /\ terminators < MaxTerminators
    /\ LET s == Walk(m_aabb_tree, m_ref_points, iter.t)
       IN  /\ iter' = [iter EXCEPT !.t = s.t]
           /\ IF s.out = ITERATOR_TERMINATOR
              THEN terminators' = terminators + 1 /\ UNCHANGED yielded
              ELSE yielded' = Append(yielded, s.out) /\ UNCHANGED terminators
    /\ UNCHANGED <<q_pc, m_ref_points, m_aabb_tree, last_call, q_error,
                   callerFrame, cubaticVars, voronoiVars>>

\* AABBQueryIterator::next(): the first call searches, every call hands out
\* the closest candidate left
KnnNext ==
    /\ iter.kind = "knn"
    /\ q_error = ""
    /\ terminators < MaxTerminators
    /\ LET s == IF iter.searched
                THEN [ok |-> TRUE, m_r |-> iter.m_r, found |-> iter.m_current_neighbors]
                ELSE KnnSearch(m_aabb_tree, m_ref_points, iter.point, iter.m_k,
                               iter.m_r, iter.m_scale)
           kept == IF iter.searched THEN s.found
                   ELSE SubSeq(s.found, 1, Min2(iter.m_k, Len(s.found)))
       IN  IF ~s.ok
           THEN /\ q_error' = "InsufficientNeighbors"
                /\ iter' = [iter EXCEPT !.m_r = s.m_r, !.searched = TRUE,
                                        !.m_image_list = updateImageVectors(s.m_r)]
                /\ UNCHANGED <<yielded, terminators>>
           ELSE /\ UNCHANGED q_error
                /\ IF kept = <<>>
                   THEN /\ terminators' = terminators + 1
                        /\ iter' = [iter EXCEPT !.searched = TRUE]
                        /\ UNCHANGED yielded
                   ELSE /\ yielded' = Append(yielded, Head(kept))
                        /\ iter' = [iter EXCEPT !.m_r = s.m_r, !.searched = TRUE,
                                       !.m_image_list = updateImageVectors(s.m_r),
                                       !.m_current_neighbors = Tail(kept)]
                        /\ UNCHANGED terminators
    /\ UNCHANGED <<q_pc, m_ref_points, m_aabb_tree, last_call,
                   callerFrame, cubaticVars, voronoiVars>>

\* The caller lets go of the iterator, or drops the error it caught
Release ==
    /\ q_pc \in {"new", "ready"}
    /\ iter # None \/ q_error # ""
    /\ iter' = None
    /\ yielded' = <<>>
    /\ terminators' = 0
    /\ q_error' = ""
    /\ last_call' = NoCall
    /\ UNCHANGED <<q_pc, m_ref_points, m_aabb_tree, callerFrame, cubaticVars, voronoiVars>>

\* compute(box, rcut, ref_points, Nref, points, Np, exclude_ii): the tree is
\* built anew, then traverseTree runs point by point
Compute(rcut, refs, points, exclude_ii) ==
    /\ q_pc \in {"new", "ready"}
    /\ iter = None
    /\ q_error = ""
    /\ last_call' = [name |-> "compute"]
    /\ IF rcut > BoxL
       THEN /\ q_error' = "CutoffTooLarge"
            /\ UNCHANGED <<q_pc, m_ref_points, m_aabb_tree, callerFrame>>
       ELSE /\ q_error' = ""
            /\ q_pc' = "traverse"
            /\ m_ref_points' = refs
            /\ m_aabb_tree' = buildTree(refs)
            /\ m_rcut' = rcut
            /\ nl_points' = points
            /\ nl_exclude_ii' = exclude_ii
            /\ nl_i' = 0
            /\ m_neighbor_list' = <<>>
    /\ UNCHANGED <<iter, yielded, terminators, cubaticVars, voronoiVars>>

\* The neighbours of point nl_i, appended in the order the traversal finds them
TraversePoint ==
    /\ q_pc = "traverse"
    /\ LET i == nl_i
           found == WalkAll(m_aabb_tree, m_ref_points,
                            TraversalStart(nl_points[i + 1], m_rcut,
                                           IF nl_exclude_ii THEN i ELSE -1,
                                           updateImageVectors(m_rcut)))
       IN  /\ m_neighbor_list' = m_neighbor_list
                \o [n \in 1..Len(found) |->
                       [id |-> i, ref_id |-> found[n].ref_id, distance |-> found[n].distance]]
           /\ nl_i' = i + 1
           /\ q_pc' = IF i + 1 = Len(nl_points) THEN "ready" ELSE "traverse"
    /\ UNCHANGED <<m_ref_points, m_aabb_tree, last_call, q_error, iter, yielded,
                   terminators, m_rcut, nl_points, nl_exclude_ii, cubaticVars, voronoiVars>>

(***************************************************************************)
(* VoronoiBuffer: the images of the particles within a buffer about the    *)
(* box.  Lengths, tilt factors, coordinates and the buffer width are       *)
(* integers; half a box length is compared doubled.                        *)
(***************************************************************************)
\* ceil(a / b) for b > 0
CeilDiv(a, b) == -((-a) \div b)

Box(lx, ly, lz, xy, xz, yz, is2D) ==
    [lx |-> lx, ly |-> ly, lz |-> lz, xy |-> xy, xz |-> xz, yz |-> yz, is2D |-> is2D]

\* lines 62-64 and 81-83: the image of point p under the offset (i, j, k)
Image(box, p, i, j, k) ==
    IF box.is2D
    THEN <<p[1] + i * box.lx + j * box.ly * box.xy, p[2] + j * box.ly, 0>>
    ELSE <<p[1] + i * box.lx + j * box.ly * box.xy + k * box.lz * box.xz,
           p[2] + j * box.ly + k * box.lz * box.yz,
           p[3] + k * box.lz>>

\* lines 66-68 and 85-89: the image is within the buffer
InBuffer(box, img, buff) ==
    IF box.is2D
    THEN LET xadj == img[2] * box.xy
         IN  /\ 2 * img[1] < box.lx + 2 * buff + 2 * xadj
             /\ 2 * img[1] > -(box.lx + 2 * buff) + 2 * xadj
             /\ 2 * img[2] < box.ly + 2 * buff
             /\ 2 * img[2] > -(box.ly + 2 * buff)
    ELSE LET xadj == img[2] * box.xy + img[3] * box.xz
             yadj == img[3] * box.yz
         IN  /\ 2 * img[1] < box.lx + 2 * buff + 2 * xadj
             /\ 2 * img[1] > -(box.lx + 2 * buff) + 2 * xadj
             /\ 2 * img[2] < box.ly + 2 * buff + 2 * yadj
             /\ 2 * img[2] > -(box.ly + 2 * buff) + 2 * yadj
             /\ 2 * img[3] < box.lz + 2 * buff
             /\ 2 * img[3] > -(box.lz + 2 * buff)

\* The values of a loop variable that runs from -n to n
LoopRange(n) == IF n < 0 THEN << >> ELSE [x \in 1..(2 * n + 1) |-> x - n - 1]

\* lines 54-98: the offsets in the order the loops visit them; a 2D box has
\* no loop over k
Offsets(box, buff) ==
    LET is == LoopRange(CeilDiv(buff, box.lx))
        js == LoopRange(CeilDiv(buff, box.ly))
        ks == IF box.is2D THEN <<0>> ELSE LoopRange(CeilDiv(buff, box.lz))
        nj == Len(js)
        nk == Len(ks)
    IN  [x \in 1..(Len(is) * nj * nk) |->
            << is[((x - 1) \div (nj * nk)) + 1],
               js[(((x - 1) \div nk) % nj) + 1],
               ks[((x - 1) % nk) + 1] >>]

\* lines 60 and 79
NonZeroOffset(o) == ~(o[1] = 0 /\ o[2] = 0 /\ o[3] = 0)

\* What the loops over i, j and k push back for one particle
ParticlePushBacks(box, points, buff, offsets, particle) ==
    LET visited == [x \in 1..Len(offsets) |->
                      [o |-> offsets[x],
                       img |-> Image(box, points[particle + 1],
                                     offsets[x][1], offsets[x][2], offsets[x][3])]]
        Pushed(e) == NonZeroOffset(e.o) /\ InBuffer(box, e.img, buff)
        kept == SelectSeq(visited, Pushed)
    IN  [n \in 1..Len(kept) |-> [img |-> kept[n].img, id |-> particle]]

\* lines 52-99: what the loop pushes back for the particles from `particle` on
RECURSIVE PushBacks(_, _, _, _, _)
PushBacks(box, points, buff, offsets, particle) ==
    IF particle >= Len(points) THEN << >>
    ELSE ParticlePushBacks(box, points, buff, offsets, particle)
         \o PushBacks(box, points, buff, offsets, particle + 1)

VoronoiInit ==
    /\ vb_pc = "new"
    /\ m_box = Box(0, 0, 0, 0, 0, 0, FALSE)
    /\ vb_points = << >>
    /\ vb_buff = 0
    /\ m_buffer_particles = << >>
    /\ m_buffer_ids = << >>

\* VoronoiBuffer(box)
VoronoiBufferNew(box) ==
    /\ vb_pc = "new"
    /\ vb_pc' = "ready"
    /\ m_box' = box
    /\ UNCHANGED <<vb_points, vb_buff, m_buffer_particles, m_buffer_ids,
                   cubaticVars, queryVars>>

\* compute that pushes back onto the vectors of the call before
VoronoiComputeAppending(points, buff) ==
    /\ vb_pc = "ready"
    /\ vb_points' = points
    /\ vb_buff' = buff
    /\ LET pushed == PushBacks(m_box, points, buff, Offsets(m_box, buff), 0)
       IN  /\ m_buffer_particles' =
                 m_buffer_particles \o [n \in 1..Len(pushed) |-> pushed[n].img]
           /\ m_buffer_ids' = m_buffer_ids \o [n \in 1..Len(pushed) |-> pushed[n].id]
    /\ UNCHANGED <<vb_pc, m_box, cubaticVars, queryVars>>

\* compute(points, Np, buff): lines 24-49 make the two vectors anew
VoronoiCompute(points, buff) ==
    /\ vb_pc = "ready"
    /\ vb_points' = points
    /\ vb_buff' = buff
    /\ LET pushed == PushBacks(m_box, points, buff, Offsets(m_box, buff), 0)
       IN  /\ m_buffer_particles' = [n \in 1..Len(pushed) |-> pushed[n].img]
           /\ m_buffer_ids' = [n \in 1..Len(pushed) |-> pushed[n].id]
    /\ UNCHANGED <<vb_pc, m_box, cubaticVars, queryVars>>

(***************************************************************************)
(* Specifications                                                          *)
(***************************************************************************)
vars == <<cubaticVars, otherVars>>

MaxReplicates == 3

\* Arguments of the constructor and of compute
TInitials == {Rat(2, 1), Rat(4, 1)}
TFinals == {Rat(1, 1)}
Scales == {Rat(1, 2), Rat(3, 2)}
Seeds == {0, 1}
Init == CubaticInit /\ QueryInit /\ VoronoiInit

\* compute with the replicates run by their streams, in parallel
Next ==
    \/ \E ti \in TInitials, tf \in TFinals, sc \in Scales,
          r \in 1..MaxReplicates, seed \in Seeds : Construct(ti, tf, sc, r, seed)
    \/ \E oris \in OrientationInputs : BeginCompute(oris)
    \/ \E i \in tasks_left : ParticleTensorTask(i)
    \/ StartGlobalTensor
    \/ \E b \in tasks_left : GlobalTensorTask(b)
    \/ \E p \in Partitions(0, m_replicates) : StartReplicates(p)
    \/ \E k \in DOMAIN workers : ReplicateRun(k)
    \/ \E k \in DOMAIN workers : WriteTensor(k)
    \/ \E k \in DOMAIN workers : WriteOrientation(k)
    \/ \E k \in DOMAIN workers : WriteOrderParameter(k)
    \/ SelectBest
    \/ \E i \in tasks_left : ParticleOrderParameterTask(i)
    \/ FinishCompute

Spec == Init /\ [][Next]_vars

\* One replicate, its annealing loop iteration by iteration, for every
\* sequence of draws (the position of the stream is not followed)
AnnealTInitials == {Rat(1, 1), Rat(4, 1)}
AnnealTFinals == {RatZero, Rat(1, 1)}
AnnealScales == {Rat(-1, 2), RatZero, Rat(1, 2), Rat(3, 2)}
AnnealOrientationInputs == {<<0>>}

\* What calcRandomQuaternion returns, over all its draws
RandomQuaternions ==
    {calcRandomQuaternion(u1, u2, u3) : u1 \in DrawValues, u2 \in DrawValues,
                                        u3 \in DrawValues}

NextAnneal ==
    \/ \E ti \in AnnealTInitials, tf \in AnnealTFinals, sc \in AnnealScales :
          Construct(ti, tf, sc, 1, 0)
    \/ \E oris \in AnnealOrientationInputs : BeginCompute(oris)
    \/ \E i \in tasks_left : ParticleTensorTask(i)
    \/ StartGlobalTensor
    \/ \E b \in tasks_left : GlobalTensorTask(b)
    \/ \E p \in Partitions(0, m_replicates) : StartReplicates(p)
    \/ \E k \in DOMAIN workers : \E q \in RandomQuaternions : ReplicateStart(k, q)
    \/ \E k \in DOMAIN workers : \E rotation \in RandomQuaternions :
          \E test \in DrawValues : ReplicateIterate(k, rotation, test)
    \/ \E k \in DOMAIN workers : WriteTensor(k)
    \/ \E k \in DOMAIN workers : WriteOrientation(k)
    \/ \E k \in DOMAIN workers : WriteOrderParameter(k)
    \/ SelectBest
    \/ \E i \in tasks_left : ParticleOrderParameterTask(i)
    \/ FinishCompute

SpecAnneal == Init /\ [][NextAnneal]_vars

\* The constructor alone, over a grid of its arguments
ConstructTemperatures ==
    {RatZero, Rat(1, 2 * TFinalMinDen), Rat(2, TFinalMinDen), Rat(1, 1), Rat(2, 1)}
ConstructScales == {Rat(-1, 2), RatZero, Rat(1, 2), RatOne, Rat(3, 2)}

NextConstruct ==
    \E ti \in ConstructTemperatures, tf \in ConstructTemperatures,
       sc \in ConstructScales : Construct(ti, tf, sc, 1, 0)

SpecConstruct == Init /\ [][NextConstruct]_vars

(***************************************************************************)
(* Properties of the constructor                                           *)
(***************************************************************************)
\* The tensor state as it is before the constructor's body: nothing reset,
\* allocated or computed
TensorStateUntouched ==
    /\ m_gen_r4_tensor = tensor4_zero
    /\ m_particle_tensor = << >>
    /\ m_particle_order_parameter = << >>

\* C3: a constructor called with t_initial <= t_final (equality included)
\* fails with the invalid-parameter error, the tensor state untouched.
C3_EqualTemperaturesRejected ==
    (pc # "new" /\ RatLE(m_t_initial, m_t_final))
        => (pc = "ctor_failed" /\ ctor_error # "" /\ TensorStateUntouched)

\* C4: a constructor called with a scale outside the open interval (0, 1)
\* fails; every accepted optimizer has 0 < scale < 1.
C4_ScaleInOpenInterval ==
    (pc # "new" /\ ~(RatLT(RatZero, m_scale) /\ RatLT(m_scale, RatOne)))
        => pc = "ctor_failed"

(***************************************************************************)
(* Properties of the annealing loop                                        *)
(***************************************************************************)
\* C8: every iteration of a replicate's annealing loop, whether its proposal
\* is accepted or rejected, is taken with loop_count below 10000 and raises
\* loop_count by one: the loop ends after at most 10000 iterations.
C8_AnnealingBounded ==
    [][\A k \in DOMAIN workers :
          (/\ pc = "replicates" /\ pc' = "replicates"
           /\ workers[k].at = "loop" /\ workers'[k].at = "loop"
           /\ workers'[k] # workers[k])
          => /\ workers[k].loop_count < MaxLoopCount
             /\ workers'[k].loop_count = workers[k].loop_count + 1
             /\ workers'[k].loop_count <= MaxLoopCount]_vars

\* The loop is at its bound with every proposal rejected: the temperature is
\* the initial one, still above t_final
C8_Witness ==
    /\ pc = "replicates"
    /\ \E k \in DOMAIN workers :
          /\ workers[k].at = "loop"
          /\ workers[k].loop_count = MaxLoopCount
          /\ workers[k].branch = "continue"
          /\ workers[k].t_current = m_t_initial
          /\ RatLT(m_t_final, workers[k].t_current)
          /\ ~LoopContinues(workers[k], m_t_final)

\* C9: an iteration whose proposal is rejected leaves the temperature and the
\* accepted state (cubatic_orientation, cubatic_tensor,
\* cubatic_order_parameter) unchanged; an iteration whose proposal is accepted
\* multiplies the temperature by scale, once.
C9_RejectedStepFrame ==
    [][\A k \in DOMAIN workers :
          (/\ pc = "replicates" /\ pc' = "replicates"
           /\ workers[k].at = "loop" /\ workers'[k].at = "loop"
           /\ workers'[k].loop_count # workers[k].loop_count)
          => LET w == workers[k]
                 v == workers'[k]
             IN  /\ v.branch \in {"improved", "boltzmann", "continue"}
                 /\ v.branch = "continue"
                      => /\ ~Improves(v.new_order_parameter, w.cubatic_order_parameter)
                         /\ v.t_current = w.t_current
                         /\ v.cubatic_orientation = w.cubatic_orientation
                         /\ v.cubatic_tensor = w.cubatic_tensor
                         /\ v.cubatic_order_parameter = w.cubatic_order_parameter
                 /\ v.branch # "continue"
                      => v.t_current = RatMul(w.t_current, m_scale)]_vars

\* Three iterations of which one was accepted: the temperature has been
\* halved once, and the last proposal was rejected
C9_Witness ==
    /\ pc = "replicates"
    /\ \E k \in DOMAIN workers :
          /\ workers[k].at = "loop"
          /\ workers[k].loop_count = 3
          /\ workers[k].branch = "continue"
          /\ workers[k].current_orientation # workers[k].cubatic_orientation
          /\ m_scale = Rat(1, 2)
          /\ workers[k].t_current = RatMul(m_t_initial, m_scale)

(***************************************************************************)
(* The specification of the queries                                        *)
(***************************************************************************)
\* Reference points: two at the same place with a neighbour across the
\* boundary, a cross about (1, 1), a single point
RefPointSets ==
    { << <<0, 0>>, <<0, 0>>, <<BoxL - 1, 0>>, <<1, 2>> >>,
      << <<1, 1>>, <<2, 1>>, <<1, 2>>, <<0, 1>>, <<1, 0>> >>,
      << <<2, 2>> >> }
QueryPoints == {<<0, 0>>, <<1, 1>>, <<BoxL - 1, BoxL - 1>>}
BallRadii == 0..(BoxL + 1)
KnnKs == {1, 3, 6}
KnnRadii == {1, 2}
KnnScales == {2, 3}
ComputeRadii == {1, BoxL, BoxL + 1}
ComputePoints(refs) == {refs, << <<1, 1>>, <<0, 0>> >>}

NextQuery ==
    \/ \E refs \in RefPointSets : AABBQueryNew(refs)
    \/ \E p \in QueryPoints, k \in KnnKs : QueryPlain(p, k)
    \/ \E p \in QueryPoints, k \in KnnKs, r \in KnnRadii, sc \in KnnScales :
          Query(p, k, r, sc)
    \/ \E p \in QueryPoints, r \in BallRadii : QueryBall(p, r)
    \/ BallNext
    \/ KnnNext
    \/ Release
    \/ \E rcut \in ComputeRadii, refs \in RefPointSets, x \in BOOLEAN :
          \E points \in ComputePoints(refs) : Compute(rcut, refs, points, x)
    \/ TraversePoint

SpecQuery == Init /\ [][NextQuery]_vars

(***************************************************************************)
(* Properties of the replicates                                            *)
(***************************************************************************)
\* Replicate i as annealed with the stream Saru(m_seed, i, 0xffaabb) from its
\* first draw
ReferenceReplicate(i) ==
    LET w == NewWorker(i, i + 1)
        started == AnnealStart(w, m_global_tensor, m_gen_r4_tensor, m_t_initial,
                               calcRandomQuaternion(StreamDraw(w, m_seed, 0),
                                                    StreamDraw(w, m_seed, 1),
                                                    StreamDraw(w, m_seed, 2)))
    IN  AnnealLoop([started EXCEPT !.pos = 3], m_global_tensor, m_gen_r4_tensor,
                   m_t_final, m_scale, m_seed)

\* C5: the final state of replicate i is the one its own stream
\* (seed, i, salt) gives, however the replicates are split into ranges.
C5_StreamPerReplicate ==
    pc = "replicates" =>
        \A k \in DOMAIN workers :
            workers[k].at = "loop" =>
                LET r == ReferenceReplicate(workers[k].i)
                IN  /\ workers[k].cubatic_orientation = r.cubatic_orientation
                    /\ workers[k].cubatic_order_parameter = r.cubatic_order_parameter
                    /\ workers[k].cubatic_tensor = r.cubatic_tensor

\* The 81 values of array from index first on
Region(array, first) == [c \in Idx81 |-> array[first + c]]

BruteCandidates(point, r) ==
    LET images == updateImageVectors(r)
        all == { [ref_id |-> j, image |-> n,
                  distance |-> DistSq(m_ref_points[j + 1],
                                      <<point[1] + images[n][1],
                                        point[2] + images[n][2]>>)] :
                    j \in 0..(Len(m_ref_points) - 1), n \in 1..Len(images) }
    IN  {c \in all : c.distance <= r * r}

\* How many candidates there are with a key below that of c
Rank(S, c) ==
    Cardinality({d \in S : \/ d.distance < c.distance
                           \/ (d.distance = c.distance /\ d.ref_id < c.ref_id)})

\* The n closest candidates may be handed out as seq: the m-th handed out has
\* fewer than m candidates before it, with its own key as many as there are
HandsOutClosest(S, seq) ==
    \A m \in 1..Len(seq) :
        \E c \in S :
            /\ c.ref_id = seq[m].ref_id
            /\ c.distance = seq[m].distance
            /\ Rank(S, c) < m
            /\ m <= Rank(S, c)
                    + Cardinality({d \in S : d.ref_id = c.ref_id /\ d.distance = c.distance})

\* The radii the search of the last query(point, k, r, scale) tries
RECURSIVE GrowthRadii(_, _)
GrowthRadii(r, scale) ==
    IF r > BoxL THEN {} ELSE {r} \cup GrowthRadii(r * scale, scale)

\* C1: a k-nearest iterator yields at most k candidates, in non-decreasing
\* distance with equal distances by point index, the closest there are at its
\* radius; it signals exhaustion only after the k-th and from then on yields
\* nothing more; it fails with InsufficientNeighbors, nothing yielded, exactly
\* when no radius it may try has k candidates.
C1_KnnYieldsExactlyK ==
    /\ [](iter.kind = "knn" =>
            /\ Len(yielded) <= iter.m_k
            /\ \A n \in 1..(Len(yielded) - 1) : NeighborOrdered(yielded[n], yielded[n + 1])
            /\ terminators > 0 => Len(yielded) = iter.m_k
            /\ yielded # <<>> =>
                  LET S == BruteCandidates(iter.point, iter.m_r)
                  IN  Cardinality(S) >= iter.m_k /\ HandsOutClosest(S, yielded)
            /\ q_error # "" => q_error = "InsufficientNeighbors" /\ yielded = <<>>
            /\ iter.searched =>
                  (q_error = "InsufficientNeighbors"
                     <=> \A r \in GrowthRadii(last_call.r, last_call.scale) :
                            Cardinality(BruteCandidates(iter.point, r)) < iter.m_k))
    /\ [][(iter.kind = "knn" /\ iter'.kind = "knn" /\ terminators > 0)
            => yielded' = yielded /\ terminators' >= terminators]_vars

\* The search grew its radius, found six candidates, two pairs of them at
\* equal distance, handed them out and signalled exhaustion twice
C1_Witness ==
    /\ iter.kind = "knn"
    /\ iter.m_k = 6
    /\ Len(yielded) = 6
    /\ terminators = MaxTerminators
    /\ iter.m_r > last_call.r
    /\ \E n \in 1..5 : yielded[n].distance = yielded[n + 1].distance
                        /\ yielded[n].ref_id < yielded[n + 1].ref_id

\* The reference points within r of point by the minimum image convention
WithinBall(point, r) ==
    {j \in 0..(Len(m_ref_points) - 1) :
        MinImageDistSq(m_ref_points[j + 1], point) <= r * r}

YieldedIds == {yielded[n].ref_id : n \in 1..Len(yielded)}

\* C2: a ball iterator emits no point farther than r by the minimum image
\* convention, and once it is exhausted it has emitted every point within r.
C2_BallExact ==
    iter.kind = "ball" =>
        /\ YieldedIds \subseteq WithinBall(iter.t.point, iter.t.m_r)
        /\ \A n \in 1..Len(yielded) : yielded[n].distance <= iter.t.m_r * iter.t.m_r
        /\ terminators > 0 => YieldedIds = WithinBall(iter.t.point, iter.t.m_r)

\* An exhausted ball iterator over four points has left one point out, has
\* emitted one at exactly r, and one that is only within r across the boundary
C2_Witness ==
    /\ iter.kind = "ball"
    /\ terminators > 0
    /\ Len(m_ref_points) = 4
    /\ iter.t.m_r > 0
    /\ YieldedIds # {}
    /\ \E j \in 0..3 : j \notin YieldedIds
    /\ \E n \in 1..Len(yielded) :
          /\ yielded[n].distance = iter.t.m_r * iter.t.m_r
          /\ DistSq(m_ref_points[yielded[n].ref_id + 1], iter.t.point) > yielded[n].distance

\* C6: query(point, k) has thrown whenever it was called, and has returned no
\* iterator.
C6_PlainQueryRejected ==
    last_call.name = "query(point, k)" => q_error # "" /\ iter = None

C6_Witness ==
    /\ last_call.name = "query(point, k)"
    /\ last_call.k = 3
    /\ Len(m_ref_points) > 1
    /\ q_error = "runtime_error"

\* The triples the neighbour list holds
NeighborSet == {m_neighbor_list[n] : n \in 1..Len(m_neighbor_list)}

\* The triples of the points traversed so far, by enumeration: every pair of a
\* point and a reference point under every image, the pair (i, i) under the zero
\* image left out when exclude_ii is set
EligibleTriples ==
    LET images == updateImageVectors(m_rcut)
        all == { [id |-> i, ref_id |-> j, image |-> n,
                  distance |-> DistSq(m_ref_points[j + 1],
                                      <<nl_points[i + 1][1] + images[n][1],
                                        nl_points[i + 1][2] + images[n][2]>>)] :
                    i \in 0..(nl_i - 1), j \in 0..(Len(m_ref_points) - 1),
                    n \in 1..Len(images) }
        eligible == {c \in all : /\ c.distance <= m_rcut * m_rcut
                                  /\ ~(/\ nl_exclude_ii
                                       /\ c.id = c.ref_id
                                       /\ images[c.image] = <<0, 0>>)}
    IN  {[id |-> c.id, ref_id |-> c.ref_id, distance |-> c.distance] : c \in eligible}

\* C7: with exclude_ii the neighbour list never holds a point as its own
\* neighbour at distance 0, and it holds every other pair within rcut: those
\* of points at the same place and those of a point with its own images.
C7_SelfExcluded ==
    last_call.name = "compute" /\ q_error = "" =>
        /\ nl_exclude_ii =>
              \A e \in NeighborSet : ~(e.id = e.ref_id /\ e.distance = 0)
        /\ NeighborSet = EligibleTriples

\* The points are the reference points, exclude_ii is set; point 0 has point 1
\* at distance 0 and its own image at the distance of the box
C7_Witness ==
    /\ last_call.name = "compute"
    /\ q_pc = "ready"
    /\ nl_exclude_ii
    /\ nl_points = m_ref_points
    /\ [id |-> 0, ref_id |-> 1, distance |-> 0] \in NeighborSet
    /\ [id |-> 0, ref_id |-> 0, distance |-> BoxL * BoxL] \in NeighborSet
    /\ [id |-> 0, ref_id |-> 0, distance |-> 0] \notin NeighborSet

(***************************************************************************)
(* Properties of the selection                                             *)
(***************************************************************************)
\* C11: once the best replicate is selected, the stored order parameter is
\* the maximum of the replicates' order parameters, max_idx is the lowest
\* index that attains it, and the stored orientation and order parameter
\* are those of replicate max_idx.
C11_BestReplicateSelected ==
    pc \in {"particle_order_parameter", "done"} =>
        /\ m_replicates >= 1
        /\ max_idx \in 0..(m_replicates - 1)
        /\ \A i \in 0..(m_replicates - 1) :
              RatLE(p_cubatic_order_parameter[i + 1], m_cubatic_order_parameter)
        /\ \A i \in 0..(max_idx - 1) :
              RatLT(p_cubatic_order_parameter[i + 1], m_cubatic_order_parameter)
        /\ m_cubatic_order_parameter = p_cubatic_order_parameter[max_idx + 1]
        /\ m_cubatic_orientation = p_cubatic_orientation[max_idx + 1]

\* compute has returned; replicate 0 is not the best, and the best order
\* parameter is attained by two replicates, with different orientations, of
\* which the lower is the one stored
C11_Witness ==
    /\ pc = "done"
    /\ max_idx >= 1
    /\ \E i \in (max_idx + 1)..(m_replicates - 1) :
          /\ p_cubatic_order_parameter[i + 1] = m_cubatic_order_parameter
          /\ p_cubatic_orientation[i + 1] # m_cubatic_orientation

(***************************************************************************)
(* Properties of the phases of compute                                     *)
(***************************************************************************)
\* Every particle's 81 values are those of its orientation
ParticleTensorsWritten ==
    \A i \in 0..(m_n - 1), j \in 0..80 :
        m_particle_tensor[Index2D(m_n, 81, i, j) + 1]
            = HomogeneousTensor(orientations[i + 1])[j + 1]

AfterParticleTensors == {"global_tensor", "replicates", "particle_order_parameter", "done"}
BeforeSelection == {"particle_tensor", "global_tensor", "replicates"}

\* C12: no element of the global tensor is reduced while a per-particle
\* tensor is still to be written; while replicates run the global tensor is
\* final, the reference tensor subtracted; the best replicate is selected
\* only when every replicate has written its outputs, which then stay as
\* they are; the per-particle order parameters are untouched until then; and
\* the tasks of the per-particle and replicate phases leave the global tensor
\* alone.
C12_PhasesOrdered ==
    /\ [](pc = "particle_tensor" => m_global_tensor = tensor4_zero)
    /\ [](pc \in AfterParticleTensors => ParticleTensorsWritten)
    /\ [](pc \in {"particle_tensor", "global_tensor"} => workers = << >>)
    /\ [](pc \in {"replicates", "particle_order_parameter", "done"} =>
            m_global_tensor = GlobalTensorFor(orientations))
    /\ [](pc \in {"particle_order_parameter", "done"} =>
            \A k \in DOMAIN workers : workers[k].at = "done")
    /\ [](pc \in BeforeSelection =>
            \A i \in 1..m_n : m_particle_order_parameter[i] = RatZero)
    /\ [][(pc \in {"particle_tensor", "replicates", "particle_order_parameter"})
            => (m_global_tensor' = m_global_tensor)]_vars
    /\ [][(pc \in {"particle_order_parameter", "done"})
            => UNCHANGED <<replicateVars, resultVars, max_idx>>]_vars

\* compute has returned for two particles and two ranges of replicates; the
\* global tensor and the per-particle order parameters are set
C12_Witness ==
    /\ pc = "done"
    /\ m_n = 2
    /\ Len(workers) >= 2
    /\ m_global_tensor # tensor4_zero
    /\ \E i \in 1..m_n : m_particle_order_parameter[i] # RatZero

(***************************************************************************)
(* Properties of a replicate's triple                                      *)
(***************************************************************************)
\* tensor is the cubatic tensor of orientation, and order_parameter the
\* order parameter of that tensor against the global tensor
TripleConsistent(orientation, tensor, order_parameter) ==
    /\ tensor = calcCubaticTensor(m_gen_r4_tensor, orientation)
    /\ order_parameter = calcCubaticOrderParameter(m_global_tensor, tensor)

\* Replicate i has written all three of its outputs
OutputsWritten(i) ==
    \/ pc \in {"particle_order_parameter", "done"}
    \/ /\ pc = "replicates"
       /\ \E k \in DOMAIN workers :
             /\ workers[k].begin <= i
             /\ i < workers[k].end
             /\ (i < workers[k].i \/ workers[k].at = "done")

\* C13: between the iterations of its loop and after it, the orientation,
\* tensor and order parameter a replicate holds are consistent; an iteration
\* replaces all three by the proposal or changes none; the three outputs a
\* replicate has written are consistent.
C13_TripleConsistent ==
    /\ [](pc = "replicates" =>
            \A k \in DOMAIN workers :
                workers[k].at \in {"loop", "write_orientation", "write_order_parameter"}
                => TripleConsistent(workers[k].cubatic_orientation,
                                    workers[k].cubatic_tensor,
                                    workers[k].cubatic_order_parameter))
    /\ [][(pc = "replicates" /\ pc' = "replicates") =>
            \A k \in DOMAIN workers :
                (/\ workers[k].at = "loop" /\ workers'[k].at = "loop"
                 /\ workers'[k].loop_count = workers[k].loop_count + 1)
                => \/ /\ workers'[k].cubatic_orientation = workers[k].cubatic_orientation
                      /\ workers'[k].cubatic_tensor = workers[k].cubatic_tensor
                      /\ workers'[k].cubatic_order_parameter
                            = workers[k].cubatic_order_parameter
                      /\ workers'[k].branch = "continue"
                   \/ /\ workers'[k].cubatic_orientation = workers'[k].current_orientation
                      /\ workers'[k].cubatic_tensor = workers'[k].new_cubatic_tensor
                      /\ workers'[k].cubatic_order_parameter
                            = workers'[k].new_order_parameter
                      /\ workers'[k].branch # "continue"]_vars
    /\ [](\A i \in 0..(m_replicates - 1) :
            (pc \in {"replicates", "particle_order_parameter", "done"} /\ OutputsWritten(i))
            => TripleConsistent(p_cubatic_orientation[i + 1],
                                Region(p_cubatic_tensor, TensorSlot(i)),
                                p_cubatic_order_parameter[i + 1]))

\* The loop has ended on a proposal accepted by the Boltzmann test, after a
\* rejected one; the state it leaves is not that of the highest order
\* parameter, which orientation 0 has
C13_Witness ==
    /\ pc = "replicates"
    /\ \E k \in DOMAIN workers :
          /\ workers[k].at = "loop"
          /\ ~LoopContinues(workers[k], m_t_final)
          /\ workers[k].branch = "boltzmann"
          /\ workers[k].loop_count >= 3
          /\ RatLT(RatMul(RatMul(RatMul(m_t_initial, m_scale), m_scale), m_scale),
                   workers[k].t_current)
          /\ RatLT(workers[k].cubatic_order_parameter,
                   calcCubaticOrderParameter(m_global_tensor,
                                             calcCubaticTensor(m_gen_r4_tensor, 0)))

(***************************************************************************)
(* The specification of the buffer                                         *)
(***************************************************************************)
VoronoiBoxes ==
    { Box(4, 4, 0, 0, 0, 0, TRUE), Box(4, 2, 0, 1, 0, 0, TRUE),
      Box(4, 4, 4, 0, 0, 0, FALSE), Box(4, 2, 4, 1, 0, 0, FALSE),
      Box(2, 4, 4, 0, 1, 1, FALSE), Box(4, 4, 2, 1, 1, 0, FALSE) }
VoronoiPoints ==
    { << >>,
      << <<0, 0, 0>> >>,
      << <<1, -1, 1>>, <<-2, 1, 0>> >>,
      << <<1, 1, -1>>, <<1, 1, -1>>, <<-1, 0, 1>> >> }
VoronoiBuffs == {-5, 0, 1, 2, 3}

NextVoronoi ==
    \/ \E box \in VoronoiBoxes : VoronoiBufferNew(box)
    \/ \E points \in VoronoiPoints, buff \in VoronoiBuffs : VoronoiCompute(points, buff)

SpecVoronoi == Init /\ [][NextVoronoi]_vars

(***************************************************************************)
(* Properties of the buffer                                                *)
(***************************************************************************)
VbMaxOffset == 2

\* p moved by i, j and k times the lattice vectors of the box
Translate(box, p, i, j, k) ==
    LET a1 == <<box.lx, 0, 0>>
        a2 == <<box.xy * box.ly, box.ly, 0>>
        a3 == <<box.xz * box.lz, box.yz * box.lz, box.lz>>
    IN  [c \in 1..3 |-> p[c] + i * a1[c] + j * a2[c] + k * a3[c]]

\* C14: the two lists have the same length; every id is that of a particle
\* of the last call; every entry is that particle moved by a lattice offset
\* that is not all zero and lies within the buffer of the last call, no
\* entry twice; in a 2D box the offset has no k and the entry has z = 0.
C14_BufferListsAligned ==
    /\ Len(m_buffer_particles) = Len(m_buffer_ids)
    /\ \A n \in 1..Len(m_buffer_ids) :
          /\ m_buffer_ids[n] \in 0..(Len(vb_points) - 1)
          /\ InBuffer(m_box, m_buffer_particles[n], vb_buff)
          /\ \E i, j \in -VbMaxOffset..VbMaxOffset :
                \E k \in IF m_box.is2D THEN {0} ELSE -VbMaxOffset..VbMaxOffset :
                   LET moved == Translate(m_box, vb_points[m_buffer_ids[n] + 1], i, j, k)
                   IN  /\ <<i, j, k>> # <<0, 0, 0>>
                       /\ m_buffer_particles[n][1] = moved[1]
                       /\ m_buffer_particles[n][2] = moved[2]
                       /\ m_buffer_particles[n][3] = IF m_box.is2D THEN 0 ELSE moved[3]
          /\ \A m \in 1..Len(m_buffer_ids) :
                (m # n /\ m_buffer_ids[m] = m_buffer_ids[n])
                => m_buffer_particles[m] # m_buffer_particles[n]

\* A tilted 2D box, a buffer wider than the box is long in y: images of two
\* particles, one of them with z # 0, one image two boxes away
C14_Witness ==
    /\ vb_pc = "ready"
    /\ m_box.is2D
    /\ m_box.xy # 0
    /\ \E n, m \in 1..Len(m_buffer_ids) :
          /\ m_buffer_ids[n] # m_buffer_ids[m]
          /\ vb_points[m_buffer_ids[n] + 1][3] # 0
          /\ m_buffer_particles[n][3] = 0
          /\ LET moved == Translate(m_box, vb_points[m_buffer_ids[m] + 1], 0, -2, 0)
             IN  /\ m_buffer_particles[m][1] = moved[1]
                 /\ m_buffer_particles[m][2] = moved[2]

=============================================================================
